---- MODULE Spec2Model ----
(***************************************************************************)
(* Session state of the journey-log explorer's App component: the accepted *)
(* journey dataset, the pending (unconfirmed) dataset, the outstanding     *)
(* anomaly list and the anomaly-correction modal, with the two handlers    *)
(* that move data between them (handleDataLoaded, handleAnomalyCorrection),*)
(* the tab and cost-calculator handlers with the Dashboard they render, and*)
(* the charging-mix and route state of the CostCalculatorModal.            *)
(*                                                                         *)
(* Conventions.  A nullable React state value is a sequence of length at   *)
(* most one: NULL is the empty sequence and Some(v) holds v.  A dataset is *)
(* a sequence of trip rows; JavaScript's 0-based array index i is position *)
(* i + 1 of the sequence.  A trip row is a record of named fields; rows of *)
(* an imported file carry distinct start dates.                            *)
(***************************************************************************)
EXTENDS Integers, Sequences, FiniteSets, TLC

VARIABLES journeyData, vehicleStatusData, chargingData, activeTab,
          costCalculatorSignal, anomalies, pendingJourneyData,
          anomalyModalOpened, costModalOpened,
          homeChargingPercent, startCoords, endCoords, tripDistanceKm,
          tripDuration, loadingRoute, requests, clickServed, call

\* State of the CostCalculatorModal component.
calcVars == <<homeChargingPercent, startCoords, endCoords, tripDistanceKm,
              tripDuration, loadingRoute, requests>>

\* State of App and of the Dashboard it renders.
appVars == <<journeyData, vehicleStatusData, chargingData, activeTab,
             costCalculatorSignal, anomalies, pendingJourneyData,
             anomalyModalOpened, costModalOpened>>

\* clickServed and call are history: whether the cost-calculator modal has
\* opened since the last openCostCalculator, and the last handler invocation.
vars == <<appVars, calcVars, clickServed, call>>

\* ------------------------------------------------------------------ bounds
MaxRows == 3

MaxDirectives == 2

MaxSessionRows == 1

MaxSessionDirectives == 1

\* Cost-calculator clicks followed in one session.
MaxSignal == 1

\* Length of the submissions drawn where the tab and cost-calculator
\* handlers run next to the data handlers.
MaxAppDirectives == 0

\* Rows and directives of the submissions long enough to hold a repeated
\* 'correct' directive next to a 'skip' directive.
MaxLongRows == 2

MaxLongDirectives == 3

\* The percent inputs reach PercentMargin below 0 and above 100.
PercentMargin == 2

\* Route requests issued by one CostCalculatorModal.
MaxRequests == 2

\* ---------------------------------------------------------- nullable values
NULL == <<>>

Some(v) == <<v>>

Get(opt) == opt[1]

\* What Array.prototype.map leaves in place of a skipped row.
NullItem == [null |-> TRUE]

\* ------------------------------------------------------------------- input
\* Field values of a trip row as the file parser delivers them, before the
\* start date is attached.
TripKinds ==
  { [odometerStart |-> 100, odometerEnd |-> 150, distance |-> 50],
    [odometerStart |-> 150, odometerEnd |-> 140, distance |-> -10] }

TripRow(kind, position) ==
  [startDate |-> position, odometerStart |-> kind.odometerStart,
   odometerEnd |-> kind.odometerEnd, distance |-> kind.distance]

\* Parsed journey logs of at most maxRows rows; the row at position p started
\* on day p.
DatasetsUpTo(maxRows) ==
  UNION { { [p \in 1..n |-> TripRow(kinds[p], p)] : kinds \in [1..n -> TripKinds] }
          : n \in 0..maxRows }

Datasets == DatasetsUpTo(MaxRows)

SessionDatasets == DatasetsUpTo(MaxSessionRows)

\* Partial trip records the correction modal can send as newData.
Patches ==
  { [distance |-> 42], [odometerEnd |-> 160] }

NoPatch == [unused \in {} |-> 0]

\* Correction directives for datasets of at most maxRows rows; tripIndex
\* ranges over the valid indices of the longest dataset and one index out of
\* range on either side.
DirectivesFor(maxRows) ==
  [tripIndex : -1..maxRows, action : {"skip"}, newData : {NoPatch}]
    \cup [tripIndex : -1..maxRows, action : {"correct"}, newData : Patches]

DirectiveListsUpTo(maxRows, maxLen) ==
  UNION { [1..n -> DirectivesFor(maxRows)] : n \in 0..maxLen }

DirectiveLists == DirectiveListsUpTo(MaxRows, MaxDirectives)

\* The submissions drawn in the whole-session specification.
SessionDirectiveLists == DirectiveListsUpTo(MaxSessionRows, MaxSessionDirectives)

\* Directive lists of up to maxLen directives whose tripIndex is a valid
\* index of a dataset of maxRows rows.
InRangeDirectiveListsUpTo(maxRows, maxLen) ==
  UNION { [1..n -> { d \in DirectivesFor(maxRows) :
                       0 <= d.tripIndex /\ d.tripIndex < maxRows }]
          : n \in 0..maxLen }

LongDirectiveLists == InRangeDirectiveListsUpTo(MaxLongRows, MaxLongDirectives)

AppDirectiveLists == DirectiveListsUpTo(MaxSessionRows, MaxAppDirectives)

VehiclePayload == [telematics |-> 1]

ChargingPayload == [sessions |-> 1]

DataTypes == {"journey", "vehicle", "vts", "charging", "chronos", "unknown"}

\* The tabs MainLayout emits through onTabChange.
Tabs ==
  {"overview", "explorer", "analytics", "vehicle", "charging", "health"}

PayloadsOf(type) ==
  IF type = "journey" THEN SessionDatasets
  ELSE IF type \in {"charging", "chronos"} THEN {ChargingPayload}
  ELSE {VehiclePayload}

\* --------------------------------------------------------------- validator
Tolerance == 1

Abs(n) == IF n < 0 THEN -n ELSE n

\* Issues of one row: the field check before the cross-field check.
ValidateRow(record, index) ==
  (IF record.distance < 0
     THEN <<[tripIndex |-> index, category |-> "physically implausible value"]>>
     ELSE <<>>)
  \o
  (IF Abs((record.odometerEnd - record.odometerStart) - record.distance) > Tolerance
     THEN <<[tripIndex |-> index, category |-> "odometer mismatch"]>>
     ELSE <<>>)

RECURSIVE ValidateFrom(_, _)
ValidateFrom(data, position) ==
  IF position > Len(data) THEN <<>>
  ELSE ValidateRow(data[position], position - 1) \o ValidateFrom(data, position + 1)

\* DataValidator.validate: issues in ascending tripIndex order.
Validate(data) == ValidateFrom(data, 1)

\* -------------------------------------------------- handleAnomalyCorrection
\* corrections.forEach: the 'skip' branch fills the Set.
IndicesToRemove(corrections) ==
  { corrections[k].tripIndex :
      k \in { j \in DOMAIN corrections : corrections[j].action = "skip" } }

LastCorrect(corrections, index) ==
  CHOOSE k \in DOMAIN corrections :
    /\ corrections[k].action = "correct"
    /\ corrections[k].tripIndex = index
    /\ \A j \in DOMAIN corrections :
         (corrections[j].action = "correct" /\ corrections[j].tripIndex = index)
           => j <= k

\* corrections.forEach: the 'correct' branch fills the Map; a later set()
\* for the same key replaces the earlier value.
Updates(corrections) ==
  [ index \in { corrections[k].tripIndex :
                  k \in { j \in DOMAIN corrections : corrections[j].action = "correct" } }
      |-> corrections[LastCorrect(corrections, index)].newData ]

\* { ...item, ...patch }
Merge(item, patch) ==
  [ f \in (DOMAIN item) \cup (DOMAIN patch) |->
      IF f \in DOMAIN patch THEN patch[f] ELSE item[f] ]

RECURSIVE FilterNotRemovedUnshift(_, _, _)
\* Mutation of FilterNotRemoved: kept rows are prepended (unshift) instead
\* of appended (push).
FilterNotRemovedUnshift(items, index, indicesToRemove) ==
  IF items = <<>> THEN <<>>
  ELSE IF index \notin indicesToRemove
    THEN FilterNotRemovedUnshift(Tail(items), index + 1, indicesToRemove) \o <<Head(items)>>
    ELSE FilterNotRemovedUnshift(Tail(items), index + 1, indicesToRemove)

RECURSIVE FilterNotRemoved(_, _, _)
\* .filter((_item, index) => !indicesToRemove.has(index)); index is the
\* 0-based index of Head(items) in the array filter was called on.
FilterNotRemoved(items, index, indicesToRemove) ==
  IF items = <<>> THEN <<>>
  ELSE IF index \notin indicesToRemove
    THEN <<Head(items)>> \o FilterNotRemoved(Tail(items), index + 1, indicesToRemove)
    ELSE FilterNotRemoved(Tail(items), index + 1, indicesToRemove)

\* Mutation of MapItem: the Set and the Map are consulted one index too low.
MapItemOffByOne(item, index, indicesToRemove, updates) ==
  IF (index - 1) \in indicesToRemove THEN NullItem
  ELSE IF (index - 1) \in DOMAIN updates THEN Merge(item, updates[index - 1])
  ELSE item

\* The callback of .map((item, index) => ...).
MapItem(item, index, indicesToRemove, updates) ==
  IF index \in indicesToRemove THEN NullItem
  ELSE IF index \in DOMAIN updates THEN Merge(item, updates[index])
  ELSE item

\* .map runs over the array it is called on: index is the position in the
\* array that the preceding filter returned.
MapItems(items, indicesToRemove, updates) ==
  [ p \in 1..Len(items) |-> MapItem(items[p], p - 1, indicesToRemove, updates) ]

IsTruthy(item) == item # NullItem

\* Mutation of FilterBoolean: the trailing filter is left out.
FilterBooleanOmitted(items) == items

\* .filter(Boolean)
FilterBoolean(items) == SelectSeq(items, IsTruthy)

\* finalData of handleAnomalyCorrection.
FinalData(pending, corrections) ==
  LET cleanedData     == pending
      indicesToRemove == IndicesToRemove(corrections)
      updates         == Updates(corrections)
  IN  FilterBoolean(
        MapItems(FilterNotRemoved(cleanedData, 0, indicesToRemove),
                 indicesToRemove, updates))

\* ---------------------------------------------------------------- actions
NoCall ==
  [op |-> "none", type |-> "", data |-> NULL, corrections |-> <<>>,
   pending |-> NULL, opened |-> FALSE, tab |-> "", outcome |-> "ok"]

\* renderContent shows the Dashboard on the overview tab once journeyData is
\* truthy (an empty array is).
DashboardShown(tab, data) == tab = "overview" /\ data # NULL

\* The render that follows a handler of App.  A Dashboard that is not shown
\* is unmounted and its state is gone; one that mounts starts with
\* costModalOpened = false and runs its effect; one that stays mounted runs
\* the effect again when costCalculatorSignal has changed.  The effect calls
\* setCostModalOpened(true) when the signal is above zero.
RenderDashboard ==
  costModalOpened' =
    IF ~DashboardShown(activeTab', journeyData') THEN FALSE
    ELSE IF ~DashboardShown(activeTab, journeyData) THEN costCalculatorSignal' > 0
    ELSE IF costCalculatorSignal' # costCalculatorSignal /\ costCalculatorSignal' > 0
      THEN TRUE
    ELSE costModalOpened

\* Whether the latest click on the cost calculator has had its modal.
ServeClick ==
  clickServed' =
    IF costCalculatorSignal' # costCalculatorSignal THEN costModalOpened'
    ELSE clickServed \/ costModalOpened'

\* useState(80) of homeChargingPercent.
InitialHomePercent == 80

Init ==
  /\ journeyData = NULL
  /\ vehicleStatusData = NULL
  /\ chargingData = NULL
  /\ activeTab = "overview"
  /\ costCalculatorSignal = 0
  /\ anomalies = <<>>
  /\ pendingJourneyData = NULL
  /\ anomalyModalOpened = FALSE
  /\ costModalOpened = FALSE
  /\ clickServed = FALSE
  /\ homeChargingPercent = InitialHomePercent
  /\ startCoords = NULL
  /\ endCoords = NULL
  /\ tripDistanceKm = NULL
  /\ tripDuration = NULL
  /\ loadingRoute = FALSE
  /\ requests = <<>>
  /\ call = NoCall

\* Mutation of HandleDataLoaded: setJourneyData(data) runs for every journey
\* import, before the issues are looked at.
HandleDataLoadedAcceptsFirst(type, data) ==
  /\ IF type = "journey"
       THEN LET issues == Validate(data)
            IN  /\ journeyData' = Some(data)
                /\ IF Len(issues) > 0
                     THEN /\ anomalies' = issues
                          /\ pendingJourneyData' = Some(data)
                          /\ anomalyModalOpened' = TRUE
                     ELSE UNCHANGED <<anomalies, pendingJourneyData, anomalyModalOpened>>
       ELSE UNCHANGED <<journeyData, anomalies, pendingJourneyData, anomalyModalOpened>>
  /\ vehicleStatusData' =
       IF type = "vehicle" \/ type = "vts" THEN Some(data) ELSE vehicleStatusData
  /\ chargingData' =
       IF type = "charging" \/ type = "chronos" THEN Some(data) ELSE chargingData
  /\ UNCHANGED <<activeTab, costCalculatorSignal>>
  /\ RenderDashboard
  /\ ServeClick
  /\ UNCHANGED calcVars
  /\ call' = [NoCall EXCEPT !.op = "handleDataLoaded", !.type = type,
                            !.data = Some(data)]

\* Mutation of HandleDataLoaded: setPendingJourneyData(data) runs for every
\* journey import, before the issues are looked at.
HandleDataLoadedParksFirst(type, data) ==
  /\ IF type = "journey"
       THEN LET issues == Validate(data)
            IN  /\ pendingJourneyData' = Some(data)
                /\ IF Len(issues) > 0
                     THEN /\ anomalies' = issues
                          /\ anomalyModalOpened' = TRUE
                          /\ UNCHANGED journeyData
                     ELSE /\ journeyData' = Some(data)
                          /\ UNCHANGED <<anomalies, anomalyModalOpened>>
       ELSE UNCHANGED <<journeyData, anomalies, pendingJourneyData, anomalyModalOpened>>
  /\ vehicleStatusData' =
       IF type = "vehicle" \/ type = "vts" THEN Some(data) ELSE vehicleStatusData
  /\ chargingData' =
       IF type = "charging" \/ type = "chronos" THEN Some(data) ELSE chargingData
  /\ UNCHANGED <<activeTab, costCalculatorSignal>>
  /\ RenderDashboard
  /\ ServeClick
  /\ UNCHANGED calcVars
  /\ call' = [NoCall EXCEPT !.op = "handleDataLoaded", !.type = type,
                            !.data = Some(data)]

\* Mutation of HandleDataLoaded: setAnomalies(issues) is left out of the
\* issues branch.
HandleDataLoadedKeepsAnomalies(type, data) ==
  /\ IF type = "journey"
       THEN LET issues == Validate(data)
            IN  IF Len(issues) > 0
                  THEN /\ pendingJourneyData' = Some(data)
                       /\ anomalyModalOpened' = TRUE
                       /\ UNCHANGED <<journeyData, anomalies>>
                  ELSE /\ journeyData' = Some(data)
                       /\ UNCHANGED <<anomalies, pendingJourneyData, anomalyModalOpened>>
       ELSE UNCHANGED <<journeyData, anomalies, pendingJourneyData, anomalyModalOpened>>
  /\ vehicleStatusData' =
       IF type = "vehicle" \/ type = "vts" THEN Some(data) ELSE vehicleStatusData
  /\ chargingData' =
       IF type = "charging" \/ type = "chronos" THEN Some(data) ELSE chargingData
  /\ UNCHANGED <<activeTab, costCalculatorSignal>>
  /\ RenderDashboard
  /\ ServeClick
  /\ UNCHANGED calcVars
  /\ call' = [NoCall EXCEPT !.op = "handleDataLoaded", !.type = type,
                            !.data = Some(data)]

\* Mutation of HandleDataLoaded: the charging test also accepts 'vts', so a
\* vts import is stored as charging data too.
HandleDataLoadedVtsAsCharging(type, data) ==
  /\ IF type = "journey"
       THEN LET issues == Validate(data)
            IN  IF Len(issues) > 0
                  THEN /\ anomalies' = issues
                       /\ pendingJourneyData' = Some(data)
                       /\ anomalyModalOpened' = TRUE
                       /\ UNCHANGED journeyData
                  ELSE /\ journeyData' = Some(data)
                       /\ UNCHANGED <<anomalies, pendingJourneyData, anomalyModalOpened>>
       ELSE UNCHANGED <<journeyData, anomalies, pendingJourneyData, anomalyModalOpened>>
  /\ vehicleStatusData' =
       IF type = "vehicle" \/ type = "vts" THEN Some(data) ELSE vehicleStatusData
  /\ chargingData' =
       IF type \in {"charging", "chronos", "vts"} THEN Some(data) ELSE chargingData
  /\ UNCHANGED <<activeTab, costCalculatorSignal>>
  /\ RenderDashboard
  /\ ServeClick
  /\ UNCHANGED calcVars
  /\ call' = [NoCall EXCEPT !.op = "handleDataLoaded", !.type = type,
                            !.data = Some(data)]

HandleDataLoaded(type, data) ==
  /\ IF type = "journey"
       THEN LET issues == Validate(data)
            IN  IF Len(issues) > 0
                  THEN /\ anomalies' = issues
                       /\ pendingJourneyData' = Some(data)
                       /\ anomalyModalOpened' = TRUE
                       /\ UNCHANGED journeyData
                  ELSE /\ journeyData' = Some(data)
                       /\ UNCHANGED <<anomalies, pendingJourneyData, anomalyModalOpened>>
       ELSE UNCHANGED <<journeyData, anomalies, pendingJourneyData, anomalyModalOpened>>
  /\ vehicleStatusData' =
       IF type = "vehicle" \/ type = "vts" THEN Some(data) ELSE vehicleStatusData
  /\ chargingData' =
       IF type = "charging" \/ type = "chronos" THEN Some(data) ELSE chargingData
  /\ UNCHANGED <<activeTab, costCalculatorSignal>>
  /\ RenderDashboard
  /\ ServeClick
  /\ UNCHANGED calcVars
  /\ call' = [NoCall EXCEPT !.op = "handleDataLoaded", !.type = type,
                            !.data = Some(data)]

\* Mutation of HandleAnomalyCorrection: setAnomalies([]) is left out.
HandleAnomalyCorrectionKeepsAnomalies(corrections) ==
  /\ pendingJourneyData # NULL
  /\ journeyData' = Some(FinalData(Get(pendingJourneyData), corrections))
  /\ pendingJourneyData' = NULL
  /\ anomalyModalOpened' = FALSE
  /\ UNCHANGED <<anomalies, vehicleStatusData, chargingData>>
  /\ UNCHANGED <<activeTab, costCalculatorSignal>>
  /\ RenderDashboard
  /\ ServeClick
  /\ UNCHANGED calcVars
  /\ call' = [NoCall EXCEPT !.op = "handleAnomalyCorrection",
                            !.corrections = corrections,
                            !.pending = pendingJourneyData,
                            !.opened = anomalyModalOpened]

\* Mutation of HandleAnomalyCorrection: closeAnomalyModal() is left out.
HandleAnomalyCorrectionStaysOpen(corrections) ==
  /\ pendingJourneyData # NULL
  /\ journeyData' = Some(FinalData(Get(pendingJourneyData), corrections))
  /\ pendingJourneyData' = NULL
  /\ anomalies' = <<>>
  /\ UNCHANGED <<anomalyModalOpened, vehicleStatusData, chargingData>>
  /\ UNCHANGED <<activeTab, costCalculatorSignal>>
  /\ RenderDashboard
  /\ ServeClick
  /\ UNCHANGED calcVars
  /\ call' = [NoCall EXCEPT !.op = "handleAnomalyCorrection",
                            !.corrections = corrections,
                            !.pending = pendingJourneyData,
                            !.opened = anomalyModalOpened]

\* Mutation of HandleAnomalyCorrection: an empty result is stored as null,
\* setJourneyData(finalData.length ? finalData : null).
HandleAnomalyCorrectionNullsEmpty(corrections) ==
  /\ pendingJourneyData # NULL
  /\ journeyData' =
       LET finalData == FinalData(Get(pendingJourneyData), corrections)
       IN  IF Len(finalData) > 0 THEN Some(finalData) ELSE NULL
  /\ pendingJourneyData' = NULL
  /\ anomalies' = <<>>
  /\ anomalyModalOpened' = FALSE
  /\ UNCHANGED <<vehicleStatusData, chargingData>>
  /\ UNCHANGED <<activeTab, costCalculatorSignal>>
  /\ RenderDashboard
  /\ ServeClick
  /\ UNCHANGED calcVars
  /\ call' = [NoCall EXCEPT !.op = "handleAnomalyCorrection",
                            !.corrections = corrections,
                            !.pending = pendingJourneyData,
                            !.opened = anomalyModalOpened]

\* pendingJourneyData is an array: the spread succeeds and the handler runs
\* to its end.
HandleAnomalyCorrection(corrections) ==
  /\ pendingJourneyData # NULL
  /\ journeyData' = Some(FinalData(Get(pendingJourneyData), corrections))
  /\ pendingJourneyData' = NULL
  /\ anomalies' = <<>>
  /\ anomalyModalOpened' = FALSE
  /\ UNCHANGED <<vehicleStatusData, chargingData>>
  /\ UNCHANGED <<activeTab, costCalculatorSignal>>
  /\ RenderDashboard
  /\ ServeClick
  /\ UNCHANGED calcVars
  /\ call' = [NoCall EXCEPT !.op = "handleAnomalyCorrection",
                            !.corrections = corrections,
                            !.pending = pendingJourneyData,
                            !.opened = anomalyModalOpened]

\* Mutation of HandleAnomalyCorrectionThrows: the spread falls back to an
\* empty array, [...(pendingJourneyData || [])], and the handler runs on.
HandleAnomalyCorrectionDefaultsEmpty ==
  /\ pendingJourneyData = NULL
  /\ journeyData' = Some(<<>>)
  /\ pendingJourneyData' = NULL
  /\ anomalies' = <<>>
  /\ anomalyModalOpened' = FALSE
  /\ UNCHANGED <<vehicleStatusData, chargingData>>
  /\ UNCHANGED <<activeTab, costCalculatorSignal>>
  /\ RenderDashboard
  /\ ServeClick
  /\ UNCHANGED calcVars
  /\ call' = [NoCall EXCEPT !.op = "handleAnomalyCorrection",
                            !.opened = anomalyModalOpened]

\* pendingJourneyData is null: [...null] throws a TypeError before the
\* corrections are read and before any setter is called.
HandleAnomalyCorrectionThrows ==
  /\ pendingJourneyData = NULL
  /\ UNCHANGED <<journeyData, vehicleStatusData, chargingData, anomalies,
                 pendingJourneyData, anomalyModalOpened>>
  /\ UNCHANGED <<activeTab, costCalculatorSignal>>
  /\ RenderDashboard
  /\ ServeClick
  /\ UNCHANGED calcVars
  /\ call' = [NoCall EXCEPT !.op = "handleAnomalyCorrection",
                            !.opened = anomalyModalOpened,
                            !.outcome = "TypeError"]

\* Mutation of CloseAnomalyModal: closing the modal resets the session,
\* accepted dataset included.
CloseAnomalyModalResetsAll ==
  /\ anomalyModalOpened' = FALSE
  /\ journeyData' = NULL
  /\ pendingJourneyData' = NULL
  /\ anomalies' = <<>>
  /\ UNCHANGED <<vehicleStatusData, chargingData>>
  /\ UNCHANGED <<activeTab, costCalculatorSignal>>
  /\ RenderDashboard
  /\ ServeClick
  /\ UNCHANGED calcVars
  /\ call' = [NoCall EXCEPT !.op = "closeAnomalyModal",
                            !.opened = anomalyModalOpened]

\* onClose of the anomaly modal: useDisclosure's close.
CloseAnomalyModal ==
  /\ anomalyModalOpened' = FALSE
  /\ UNCHANGED <<journeyData, vehicleStatusData, chargingData, anomalies,
                 pendingJourneyData>>
  /\ UNCHANGED <<activeTab, costCalculatorSignal>>
  /\ RenderDashboard
  /\ ServeClick
  /\ UNCHANGED calcVars
  /\ call' = [NoCall EXCEPT !.op = "closeAnomalyModal",
                            !.opened = anomalyModalOpened]

\* Mutation of SetActiveTab: leaving a tab drops the accepted dataset.
SetActiveTabDropsData(tab) ==
  /\ activeTab' = tab
  /\ journeyData' = NULL
  /\ UNCHANGED <<vehicleStatusData, chargingData, costCalculatorSignal,
                 anomalies, pendingJourneyData, anomalyModalOpened>>
  /\ RenderDashboard
  /\ ServeClick
  /\ UNCHANGED calcVars
  /\ call' = [NoCall EXCEPT !.op = "setActiveTab", !.tab = activeTab]

\* onTabChange of MainLayout: setActiveTab.
SetActiveTab(tab) ==
  /\ activeTab' = tab
  /\ UNCHANGED <<journeyData, vehicleStatusData, chargingData, costCalculatorSignal,
                 anomalies, pendingJourneyData, anomalyModalOpened>>
  /\ RenderDashboard
  /\ ServeClick
  /\ UNCHANGED calcVars
  /\ call' = [NoCall EXCEPT !.op = "setActiveTab", !.tab = activeTab]

\* Mutation of OpenCostCalculator: setActiveTab('overview') is left out.
OpenCostCalculatorKeepsTab ==
  /\ costCalculatorSignal < MaxSignal
  /\ costCalculatorSignal' = costCalculatorSignal + 1
  /\ UNCHANGED <<journeyData, vehicleStatusData, chargingData, activeTab,
                 anomalies, pendingJourneyData, anomalyModalOpened>>
  /\ RenderDashboard
  /\ ServeClick
  /\ UNCHANGED calcVars
  /\ call' = [NoCall EXCEPT !.op = "openCostCalculator", !.tab = activeTab,
                            !.opened = costModalOpened]

\* onCostCalculatorClick of MainLayout; the click counter is followed up to
\* MaxSignal.
OpenCostCalculator ==
  /\ costCalculatorSignal < MaxSignal
  /\ activeTab' = "overview"
  /\ costCalculatorSignal' = costCalculatorSignal + 1
  /\ UNCHANGED <<journeyData, vehicleStatusData, chargingData, anomalies,
                 pendingJourneyData, anomalyModalOpened>>
  /\ RenderDashboard
  /\ ServeClick
  /\ UNCHANGED calcVars
  /\ call' = [NoCall EXCEPT !.op = "openCostCalculator", !.tab = activeTab,
                            !.opened = costModalOpened]

\* onClose of the CostCalculatorModal a shown Dashboard renders:
\* setCostModalOpened(false).
CloseCostModal ==
  /\ DashboardShown(activeTab, journeyData)
  /\ costModalOpened' = FALSE
  /\ UNCHANGED <<journeyData, vehicleStatusData, chargingData, activeTab,
                 costCalculatorSignal, anomalies, pendingJourneyData,
                 anomalyModalOpened>>
  /\ UNCHANGED <<calcVars, clickServed>>
  /\ call' = [NoCall EXCEPT !.op = "closeCostModal", !.opened = costModalOpened]

\* The handlers of App that read or write the import/correction state, each
\* callable in every state.
Next ==
  \/ \E type \in DataTypes : \E data \in PayloadsOf(type) : HandleDataLoaded(type, data)
  \/ /\ pendingJourneyData # NULL
     /\ \E corrections \in SessionDirectiveLists : HandleAnomalyCorrection(corrections)
  \/ HandleAnomalyCorrectionThrows
  \/ CloseAnomalyModal

Spec == Init /\ [][Next]_vars

\* Every handler of App, callable in every state.
NextApp ==
  \/ \E type \in DataTypes : \E data \in PayloadsOf(type) : HandleDataLoaded(type, data)
  \/ /\ pendingJourneyData # NULL
     /\ \E corrections \in AppDirectiveLists : HandleAnomalyCorrection(corrections)
  \/ HandleAnomalyCorrectionThrows
  \/ CloseAnomalyModal
  \/ \E tab \in Tabs : SetActiveTab(tab)
  \/ OpenCostCalculator
  \/ CloseCostModal

SpecApp == Init /\ [][NextApp]_vars

\* One import/correction cycle of a fresh session: the first journey import
\* and, when it was parked as pending, the submission that resolves it.
FirstImport ==
  /\ journeyData = NULL
  /\ pendingJourneyData = NULL
  /\ \E data \in Datasets : HandleDataLoaded("journey", data)

Resolve ==
  /\ pendingJourneyData # NULL
  /\ \E corrections \in DirectiveLists : HandleAnomalyCorrection(corrections)

NextCycle ==
  \/ FirstImport
  \/ Resolve

SpecCycle == Init /\ [][NextCycle]_vars

\* The same cycle with longer submissions over shorter datasets.
FirstImportShort ==
  /\ journeyData = NULL
  /\ pendingJourneyData = NULL
  /\ \E data \in DatasetsUpTo(MaxLongRows) : HandleDataLoaded("journey", data)

ResolveLong ==
  /\ pendingJourneyData # NULL
  /\ \E corrections \in LongDirectiveLists : HandleAnomalyCorrection(corrections)

NextLong ==
  \/ FirstImportShort
  \/ ResolveLong

SpecLong == Init /\ [][NextLong]_vars

\* ------------------------------------------------------ CostCalculatorModal
\* The ends of clampPercent's range.
MinPercent == 0

MaxPercent == 100

Min(a, b) == IF a < b THEN a ELSE b

Max(a, b) == IF a > b THEN a ELSE b

\* Mutation of clampPercent: the Math.min(100, ...) is left out.
clampPercentNoCeiling(value) == Max(MinPercent, value)

clampPercent(value) == Min(MaxPercent, Max(MinPercent, value))

\* const publicChargingPercent = 100 - homeChargingPercent
publicChargingPercent == MaxPercent - homeChargingPercent

\* What the slider and the two NumberInputs pass to onChange: '' (NULL) for
\* an emptied field, or an integer.
PercentInputs ==
  {NULL} \cup { Some(n) : n \in (MinPercent - PercentMargin)..(MaxPercent + PercentMargin) }

HandleHomePercentChange(value) ==
  /\ homeChargingPercent' =
       IF value = NULL THEN 0 ELSE clampPercent(Get(value))
  /\ UNCHANGED <<startCoords, endCoords, tripDistanceKm, tripDuration,
                 loadingRoute, requests>>
  /\ UNCHANGED <<appVars, clickServed>>
  /\ call' = [NoCall EXCEPT !.op = "handleHomePercentChange", !.data = value]

HandlePublicPercentChange(value) ==
  /\ homeChargingPercent' =
       IF value = NULL THEN 100 ELSE 100 - clampPercent(Get(value))
  /\ UNCHANGED <<startCoords, endCoords, tripDistanceKm, tripDuration,
                 loadingRoute, requests>>
  /\ UNCHANGED <<appVars, clickServed>>
  /\ call' = [NoCall EXCEPT !.op = "handlePublicPercentChange", !.data = value]

\* The two percent handlers of the modal.
NextMix ==
  \/ \E value \in PercentInputs : HandleHomePercentChange(value)
  \/ \E value \in PercentInputs : HandlePublicPercentChange(value)

SpecMix == Init /\ [][NextMix]_vars

\* [lat, lon] of the places the location search offers.
Coords == { <<59, 18>>, <<57, 12>> }

\* routes[0] of a routing response: distance in metres (whole kilometres
\* here, so that the division by 1000 is exact) and duration in seconds.
Routes ==
  { [distance |-> 12000, duration |-> 5400],
    [distance |-> 480000, duration |-> 17100] }

NoRoute == [distance |-> 0, duration |-> 0]

\* How a route request ends: a response with routes, a response whose
\* routes are missing or empty, or a rejected fetch / json().
Responses ==
  [kind : {"routes"}, route : Routes]
    \cup [kind : {"empty", "failed"}, route : {NoRoute}]

\* `${hours}h ${minutes}m` of a duration in seconds.
FormatDuration(duration) ==
  LET hours == duration \div 3600
      minutes == (duration % 3600) \div 60
  IN  ToString(hours) \o "h " \o ToString(minutes) \o "m"

InFlight(k) == k \in DOMAIN requests /\ requests[k].response = NULL

\* calculateRoute as the effect runs it after a render with new coordinates,
\* up to its first await: nothing without both coordinates, otherwise
\* setLoadingRoute(true) and the fetch is sent.
CalculateRoute ==
  IF startCoords' = NULL \/ endCoords' = NULL
    THEN UNCHANGED <<loadingRoute, requests>>
    ELSE /\ loadingRoute' = TRUE
         /\ requests' = Append(requests, [start |-> Get(startCoords'),
                                          end |-> Get(endCoords'),
                                          response |-> NULL])

\* onOptionSubmit of the start combobox with an offered place, and the
\* effect that follows the new calculateRoute.
OnStartOptionSubmit(coords) ==
  /\ Len(requests) < MaxRequests
  /\ startCoords' = Some(coords)
  /\ UNCHANGED endCoords
  /\ CalculateRoute
  /\ UNCHANGED <<homeChargingPercent, tripDistanceKm, tripDuration>>
  /\ UNCHANGED <<appVars, clickServed>>
  /\ call' = [NoCall EXCEPT !.op = "onStartOptionSubmit", !.data = Some(coords)]

\* onOptionSubmit of the end combobox, likewise.
OnEndOptionSubmit(coords) ==
  /\ Len(requests) < MaxRequests
  /\ endCoords' = Some(coords)
  /\ UNCHANGED startCoords
  /\ CalculateRoute
  /\ UNCHANGED <<homeChargingPercent, tripDistanceKm, tripDuration>>
  /\ UNCHANGED <<appVars, clickServed>>
  /\ call' = [NoCall EXCEPT !.op = "onEndOptionSubmit", !.data = Some(coords)]

\* Mutation of RouteSettles: the `finally` is left out and
\* setLoadingRoute(false) runs only at the end of the `try` block.
RouteSettlesNoFinally(k, response) ==
  /\ InFlight(k)
  /\ requests' = [requests EXCEPT ![k].response = Some(response)]
  /\ IF response.kind = "routes"
       THEN /\ tripDistanceKm' = Some(response.route.distance \div 1000)
            /\ tripDuration' = Some(FormatDuration(response.route.duration))
       ELSE UNCHANGED <<tripDistanceKm, tripDuration>>
  /\ loadingRoute' = IF response.kind = "failed" THEN loadingRoute ELSE FALSE
  /\ UNCHANGED <<homeChargingPercent, startCoords, endCoords>>
  /\ UNCHANGED <<appVars, clickServed>>
  /\ call' = [NoCall EXCEPT !.op = "routeSettles", !.data = Some(k),
                            !.outcome = response.kind]

\* The rest of the calculateRoute invocation that sent request k, run when
\* its fetch settles: the trip values are set from routes[0] if there is
\* one, and `finally` calls setLoadingRoute(false).
RouteSettles(k, response) ==
  /\ InFlight(k)
  /\ requests' = [requests EXCEPT ![k].response = Some(response)]
  /\ IF response.kind = "routes"
       THEN /\ tripDistanceKm' = Some(response.route.distance \div 1000)
            /\ tripDuration' = Some(FormatDuration(response.route.duration))
       ELSE UNCHANGED <<tripDistanceKm, tripDuration>>
  /\ loadingRoute' = FALSE
  /\ UNCHANGED <<homeChargingPercent, startCoords, endCoords>>
  /\ UNCHANGED <<appVars, clickServed>>
  /\ call' = [NoCall EXCEPT !.op = "routeSettles", !.data = Some(k),
                            !.outcome = response.kind]

\* A fetch that is in flight settles, in any order.
Settle == \E k \in 1..MaxRequests : \E response \in Responses : RouteSettles(k, response)

\* The trip planner of the modal: places are chosen and requests settle.
NextRoute ==
  \/ \E coords \in Coords : OnStartOptionSubmit(coords)
  \/ \E coords \in Coords : OnEndOptionSubmit(coords)
  \/ Settle

SpecRoute == Init /\ [][NextRoute]_vars

\* Every fetch settles: the browser ends it with a response or an error.
SpecRouteLive == SpecRoute /\ WF_vars(Settle)

\* ------------------------------------------------ vocabulary of the claims
\* The last handler invocation was a handleAnomalyCorrection that ran to
\* its end.
Resolved == call.op = "handleAnomalyCorrection" /\ call.outcome = "ok"

\* The pending dataset that invocation read, the directive list it was
\* given, and the dataset it stored as accepted.
Before == Get(call.pending)

Submitted == call.corrections

After == Get(journeyData)

InRange(i) == 0 <= i /\ i < Len(Before)

SkipDirected(i) ==
  \E k \in DOMAIN Submitted :
    Submitted[k].action = "skip" /\ Submitted[k].tripIndex = i

CorrectDirected(i) ==
  \E k \in DOMAIN Submitted :
    Submitted[k].action = "correct" /\ Submitted[k].tripIndex = i

\* result is row with every field of patch set to the patch's value and
\* every other field at its original value.
IsPatched(result, row, patch) ==
  /\ DOMAIN result = (DOMAIN row) \cup (DOMAIN patch)
  /\ \A f \in DOMAIN result :
       result[f] = IF f \in DOMAIN patch THEN patch[f] ELSE row[f]

\* Position in the pending dataset of the row that started on the same day.
OriginOf(row) == CHOOSE p \in DOMAIN Before : Before[p].startDate = row.startDate

RemoveAt(list, k) == SubSeq(list, 1, k - 1) \o SubSeq(list, k + 1, Len(list))

\* ------------------------------------------------------------------ claims
\* C1: the accepted dataset stored by handleAnomalyCorrection has the length
\* of the pending dataset minus the number of distinct in-range indices that
\* carry a 'skip' directive.
C1_LengthConservation ==
  Resolved =>
    Len(After) = Len(Before)
                   - Cardinality({ i \in 0..(Len(Before) - 1) : SkipDirected(i) })

\* C2: for the (last) 'correct' directive on an in-range index i that is not
\* skipped, the accepted dataset contains the row of original position i
\* with the patch's fields set and every other field unchanged, whatever
\* 'skip' directives the same submission holds for other indices.
C2_PatchByOriginalIndex ==
  Resolved =>
    \A k \in DOMAIN Submitted :
      LET d == Submitted[k]
          i == d.tripIndex
      IN  ( /\ d.action = "correct"
            /\ InRange(i)
            /\ ~SkipDirected(i)
            /\ \A j \in DOMAIN Submitted :
                 (Submitted[j].action = "correct" /\ Submitted[j].tripIndex = i)
                   => j <= k )
          => \E a \in DOMAIN After : IsPatched(After[a], Before[i + 1], d.newData)

\* C3: every row of the pending dataset whose original index carries neither
\* a 'skip' nor a 'correct' directive appears in the accepted dataset with
\* all fields unchanged.
C3_UntouchedIdentity ==
  Resolved =>
    \A i \in 0..(Len(Before) - 1) :
      (~SkipDirected(i) /\ ~CorrectDirected(i))
        => \E a \in DOMAIN After : After[a] = Before[i + 1]

\* C4: the accepted dataset has no null gaps, and for every in-range index
\* carrying a 'skip' directive the row of that original position is not in
\* it.
C4_SkippedRemoved ==
  Resolved =>
    /\ \A a \in DOMAIN After : After[a] # NullItem
    /\ \A i \in 0..(Len(Before) - 1) :
         SkipDirected(i)
           => \A a \in DOMAIN After : After[a].startDate # Before[i + 1].startDate

C4_Witness ==
  /\ Resolved
  /\ Len(Before) = MaxRows
  /\ \E i \in 0..(Len(Before) - 1) : SkipDirected(i)
  /\ Len(After) > 0

\* C5: every row of the accepted dataset comes from the pending dataset, and
\* any two of them stand in the order of their original positions.
C5_OrderPreserved ==
  Resolved =>
    /\ \A a \in DOMAIN After :
         \E p \in DOMAIN Before : Before[p].startDate = After[a].startDate
    /\ \A a, b \in DOMAIN After :
         a < b => OriginOf(After[a]) < OriginOf(After[b])

C5_Witness ==
  /\ Resolved
  /\ Len(After) >= 2
  /\ \E i \in 0..(Len(Before) - 1) : SkipDirected(i)
  /\ \E a \in DOMAIN After : After[a] # Before[OriginOf(After[a])]

\* C6: a directive whose tripIndex is below 0 or at least the pending length
\* is a no-op: the handler completes and stores the dataset it stores for
\* the same directive list without that directive.
C6_OutOfRangeNoOp ==
  Resolved =>
    \A k \in DOMAIN Submitted :
      ~InRange(Submitted[k].tripIndex)
        => journeyData = Some(FinalData(Before, RemoveAt(Submitted, k)))

C6_Witness ==
  /\ Resolved
  /\ \E k \in DOMAIN Submitted : Submitted[k].tripIndex < 0
  /\ \E k \in DOMAIN Submitted : InRange(Submitted[k].tripIndex)
  /\ After # Before

\* C7: when one in-range index i carries both a 'skip' and a 'correct'
\* directive, the row of original position i is removed and every row that
\* carries no directive of its own is retained unchanged (so the patch for i
\* lands on no such row).
C7_SkipWinsOverCorrect ==
  Resolved =>
    \A i \in 0..(Len(Before) - 1) :
      (SkipDirected(i) /\ CorrectDirected(i))
        => /\ \A a \in DOMAIN After : After[a].startDate # Before[i + 1].startDate
           /\ \A j \in 0..(Len(Before) - 1) :
                (~SkipDirected(j) /\ ~CorrectDirected(j))
                  => \E a \in DOMAIN After : After[a] = Before[j + 1]

\* The last handler invocation was handleDataLoaded('journey', data).
JourneyImported == call.op = "handleDataLoaded" /\ call.type = "journey"

\* C8: after a journey import for which the validator returns no issues, the
\* accepted dataset is the imported data, the anomaly list is empty and no
\* pending dataset remains, whatever the state before the import.
C8_CleanImport ==
  (JourneyImported /\ Len(Validate(Get(call.data))) = 0)
    => /\ journeyData = call.data
       /\ anomalies = <<>>
       /\ pendingJourneyData = NULL

\* C9: a journey import for which the validator returns issues parks the
\* data as pending, stores the validator's result as the anomaly list, opens
\* the correction modal and leaves the accepted dataset as it was before
\* the import.
C9_AnomalousImport ==
  [][ ( /\ call'.op = "handleDataLoaded"
        /\ call'.type = "journey"
        /\ Len(Validate(Get(call'.data))) > 0 )
      => /\ pendingJourneyData' = call'.data
         /\ anomalies' = Validate(Get(call'.data))
         /\ anomalyModalOpened'
         /\ journeyData' = journeyData ]_vars

C9_Witness ==
  /\ JourneyImported
  /\ Len(Validate(Get(call.data))) > 0
  /\ pendingJourneyData = call.data
  /\ anomalyModalOpened
  /\ journeyData # NULL
  /\ journeyData # call.data

\* C10: after handleAnomalyCorrection ran on an existing pending dataset, the
\* accepted dataset is the finalData the handler computed from it, the
\* pending dataset is cleared, the anomaly list is empty and the correction
\* modal is closed.
C10_ResolvePostState ==
  Resolved =>
    /\ journeyData = Some(FinalData(Before, Submitted))
    /\ pendingJourneyData = NULL
    /\ anomalies = <<>>
    /\ ~anomalyModalOpened

C10_Witness ==
  /\ Resolved
  /\ Submitted # <<>>
  /\ After # Before
  /\ Len(After) > 0

\* C11: handleAnomalyCorrection invoked when no pending dataset exists ends
\* in an error and leaves the accepted dataset, the pending dataset, the
\* anomaly list and the modal flag unchanged.
C11_ResolveWithoutPending ==
  [][ (pendingJourneyData = NULL /\ call'.op = "handleAnomalyCorrection")
      => /\ call'.outcome = "TypeError"
         /\ UNCHANGED <<journeyData, pendingJourneyData, anomalies,
                        anomalyModalOpened>> ]_vars

C11_Witness ==
  /\ call.op = "handleAnomalyCorrection"
  /\ call.outcome = "TypeError"
  /\ pendingJourneyData = NULL
  /\ journeyData # NULL

\* The last handler invocation was the onClose of the anomaly modal while
\* the modal was open.
Cancelled == call.op = "closeAnomalyModal" /\ call.opened

\* C12: after the user closed the open anomaly modal without applying, the
\* pending dataset is cleared and the anomaly list is empty.
C12_CancelDiscardsPending ==
  Cancelled => (pendingJourneyData = NULL /\ anomalies = <<>>)

\* C13: closing the open anomaly modal without applying leaves the accepted
\* dataset as it was, present or absent.
C13_CancelKeepsAccepted ==
  [][ (anomalyModalOpened /\ call'.op = "closeAnomalyModal")
      => journeyData' = journeyData ]_vars

C13_Witness ==
  /\ Cancelled
  /\ ~anomalyModalOpened
  /\ journeyData # NULL

\* C14: while a correction is outstanding (a pending dataset exists and its
\* modal is open) no journey import is processed.
C14_ImportGating ==
  [][ (pendingJourneyData # NULL /\ anomalyModalOpened)
      => ~(call'.op = "handleDataLoaded" /\ call'.type = "journey") ]_vars

\* C15: immediately after a journey import for which the validator returns
\* no issues the anomaly modal is not open.
C15_CleanImportNoWorkflow ==
  (JourneyImported /\ Len(Validate(Get(call.data))) = 0) => ~anomalyModalOpened

C18_AcceptedReplacedWholesale ==
  [][ journeyData' # journeyData
      => \/ (call'.op = "handleDataLoaded" /\ call'.type = "journey"
               /\ Len(Validate(Get(call'.data))) = 0
               /\ journeyData' = call'.data)
         \/ (call'.op = "handleAnomalyCorrection" /\ call'.outcome = "ok") ]_vars

C18_Witness ==
  /\ call.op \in {"setActiveTab", "openCostCalculator"}
  /\ journeyData # NULL
  /\ pendingJourneyData # NULL
  /\ activeTab # "overview"

C20_ApplyHasPending ==
  /\ anomalyModalOpened => (pendingJourneyData # NULL /\ anomalies # <<>>)
  /\ (call.op = "handleAnomalyCorrection" /\ call.opened)
       => (call.outcome = "ok" /\ call.pending # NULL)

C20_Witness ==
  /\ Resolved
  /\ call.opened
  /\ journeyData # NULL
  /\ ~anomalyModalOpened

\* C16: when two or more 'correct' directives name the same in-range index
\* that carries no 'skip' directive, the accepted dataset holds the row of
\* that original position merged with the patch of the last of them only.
C16_LastWriteWins ==
  Resolved =>
    \A k1, k2 \in DOMAIN Submitted :
      LET i == Submitted[k2].tripIndex
      IN  ( /\ k1 < k2
            /\ Submitted[k1].action = "correct"
            /\ Submitted[k2].action = "correct"
            /\ Submitted[k1].tripIndex = i
            /\ InRange(i)
            /\ ~SkipDirected(i)
            /\ \A j \in DOMAIN Submitted :
                 (Submitted[j].action = "correct" /\ Submitted[j].tripIndex = i)
                   => j <= k2 )
          => \E a \in DOMAIN After :
               IsPatched(After[a], Before[i + 1], Submitted[k2].newData)

\* C21: once an accepted dataset exists no step resets it to absent, and a
\* handleAnomalyCorrection whose directives skip every row of the pending
\* dataset stores the empty list, not null, as the accepted dataset.
C21_AcceptedNeverReset ==
  [][ /\ journeyData # NULL => journeyData' # NULL
      /\ ( /\ call'.op = "handleAnomalyCorrection"
           /\ call'.outcome = "ok"
           /\ \A i \in 0..(Len(Get(call'.pending)) - 1) :
                \E k \in DOMAIN call'.corrections :
                  /\ call'.corrections[k].action = "skip"
                  /\ call'.corrections[k].tripIndex = i )
          => journeyData' = Some(<<>>) ]_vars

C21_Witness ==
  /\ Resolved
  /\ Len(Before) > 0
  /\ \A i \in 0..(Len(Before) - 1) : SkipDirected(i)
  /\ journeyData = Some(<<>>)
  /\ DashboardShown(activeTab, journeyData)

\* C22: a handleDataLoaded of type 'vehicle' or 'vts' changes only
\* vehicleStatusData, one of type 'charging' or 'chronos' changes only
\* chargingData, a journey import changes neither of these two, and an
\* import of any other type changes no state at all.
C22_DataTypeIsolation ==
  [][ call'.op = "handleDataLoaded" =>
        LET type == call'.type
        IN  /\ type \in {"vehicle", "vts"} =>
                 /\ vehicleStatusData' = call'.data
                 /\ UNCHANGED <<journeyData, chargingData, activeTab,
                                costCalculatorSignal, anomalies, pendingJourneyData,
                                anomalyModalOpened, costModalOpened>>
            /\ type \in {"charging", "chronos"} =>
                 /\ chargingData' = call'.data
                 /\ UNCHANGED <<journeyData, vehicleStatusData, activeTab,
                                costCalculatorSignal, anomalies, pendingJourneyData,
                                anomalyModalOpened, costModalOpened>>
            /\ type = "journey" => UNCHANGED <<vehicleStatusData, chargingData>>
            /\ type \notin {"vehicle", "vts", "charging", "chronos", "journey"} =>
                 UNCHANGED appVars ]_vars

C22_Witness ==
  /\ call.op = "handleDataLoaded"
  /\ call.type = "vts"
  /\ vehicleStatusData = call.data
  /\ chargingData = NULL
  /\ journeyData # NULL
  /\ pendingJourneyData # NULL
  /\ anomalyModalOpened

\* C26: with journey data loaded, every openCostCalculator, whatever the
\* active tab, makes 'overview' the active tab, strictly increases
\* costCalculatorSignal, and is followed by a render in which the Dashboard
\* is shown with its cost-calculator modal open.
C26_CostCalculatorClickOpens ==
  [][ (journeyData # NULL /\ call'.op = "openCostCalculator")
        => /\ activeTab' = "overview"
           /\ costCalculatorSignal' > costCalculatorSignal
           /\ DashboardShown(activeTab', journeyData')
           /\ costModalOpened' ]_vars

C26_Witness ==
  /\ call.op = "openCostCalculator"
  /\ call.tab # "overview"
  /\ journeyData # NULL
  /\ costCalculatorSignal = MaxSignal
  /\ costModalOpened

\* C27: the cost-calculator modal goes from closed to open only for a click
\* on the cost calculator that has not had its modal yet: once it has opened
\* for the latest click, no step without a new click opens it again.
C27_CostModalOpensOnlyOnClick ==
  [][ (~costModalOpened /\ costModalOpened') => ~clickServed ]_vars

\* C23: after any sequence of handleHomePercentChange and
\* handlePublicPercentChange calls with integer or empty inputs,
\* homeChargingPercent is within 0..100 and adds up to 100 with
\* publicChargingPercent; an empty home input leaves home at 0 and an empty
\* public input leaves home at 100.
C23_ChargingMix ==
  /\ homeChargingPercent \in 0..100
  /\ homeChargingPercent + publicChargingPercent = 100
  /\ (call.op = "handleHomePercentChange" /\ call.data = NULL)
       => homeChargingPercent = 0
  /\ (call.op = "handlePublicPercentChange" /\ call.data = NULL)
       => homeChargingPercent = 100

C23_Witness ==
  /\ call.op = "handlePublicPercentChange"
  /\ call.data # NULL
  /\ Get(call.data) > 100
  /\ homeChargingPercent = 0
  /\ publicChargingPercent = 100

\* C24: a calculateRoute that runs with both coordinates set sets
\* loadingRoute and sends a request, one that runs with a coordinate missing
\* leaves loadingRoute alone, every request that is in flight eventually
\* settles, and the step in which it settles (with routes, without, or as a
\* failure) leaves loadingRoute false.
C24_LoadingFlagClears ==
  /\ [][ call'.op \in {"onStartOptionSubmit", "onEndOptionSubmit"}
          => IF startCoords' # NULL /\ endCoords' # NULL
               THEN loadingRoute' /\ InFlight(Len(requests))'
               ELSE UNCHANGED <<loadingRoute, requests>> ]_vars
  /\ [][ call'.op = "routeSettles" => ~loadingRoute' ]_vars
  /\ \A k \in 1..MaxRequests : InFlight(k) ~> ~InFlight(k)
  /\ loadingRoute ~> ~loadingRoute

C24_Witness ==
  /\ call.op = "routeSettles"
  /\ call.outcome = "failed"
  /\ Len(requests) = MaxRequests
  /\ \A k \in DOMAIN requests : ~InFlight(k)
  /\ ~loadingRoute

\* C25: once every request has settled the trip values are those of the
\* response to the request issued last, and loadingRoute is true as long as
\* a request is in flight.
C25_LatestRouteWins ==
  /\ ( /\ requests # <<>>
       /\ \A k \in DOMAIN requests : ~InFlight(k)
       /\ Get(requests[Len(requests)].response).kind = "routes" )
     => LET route == Get(requests[Len(requests)].response).route
        IN  /\ tripDistanceKm = Some(route.distance \div 1000)
            /\ tripDuration = Some(FormatDuration(route.duration))
  /\ (\E k \in DOMAIN requests : InFlight(k)) => loadingRoute

====
